---- MODULE Spec2Model ----
(***************************************************************************)
(* Echogram: the session / request lifecycle of App.tsx.                   *)
(*                                                                         *)
(* The state is the ten useState fields of App, the process-wide client    *)
(* slot of services/GeminiService, the promises in flight (one per         *)
(* handleApiKeySubmit / handleGenerate invocation) and the blob URLs made  *)
(* by URL.createObjectURL with the number of times each was revoked.       *)
(* Spec is the rendered application: a handler runs when the control that  *)
(* invokes it is rendered and enabled.  SpecHandlers is the Session        *)
(* Controller alone: the handlers of App invoked in any order while the    *)
(* component is mounted.                                                   *)
(***************************************************************************)
EXTENDS Naturals, Sequences, FiniteSets

VARIABLES
    apiKey,               \* App.tsx:10
    isKeySet,             \* App.tsx:11
    apiKeyError,          \* App.tsx:12
    isKeyValidating,      \* App.tsx:13
    uploadedImageFile,    \* App.tsx:15
    uploadedImagePreview, \* App.tsx:16
    generatedImageUrl,    \* App.tsx:17
    generatedPrompt,      \* App.tsx:18
    isLoading,            \* App.tsx:19
    error,                \* App.tsx:20
    mounted,              \* the App component is mounted
    boundClient,          \* GeminiService: the client slot, <<>> or <<key>>
    validations,          \* handleApiKeySubmit invocations awaiting line 39
    generations,          \* handleGenerate invocations awaiting line 81 or 82
    nValidations,         \* validations started so far
    nGenerations,         \* generations started so far
    nUrls,                \* blob URLs created so far
    revoked               \* revoked[n]: times URL.revokeObjectURL got URL n

appState == <<apiKey, isKeySet, apiKeyError, isKeyValidating, uploadedImageFile,
              uploadedImagePreview, generatedImageUrl, generatedPrompt,
              isLoading, error>>

vars == <<apiKey, isKeySet, apiKeyError, isKeyValidating, uploadedImageFile,
          uploadedImagePreview, generatedImageUrl, generatedPrompt, isLoading,
          error, mounted, boundClient, validations, generations, nValidations,
          nGenerations, nUrls, revoked>>

----------------------------------------------------------------------------
(* Bounds *)

\* the calls of a session that start a promise or create a blob URL
MaxCalls == 5

Calls == nValidations + nGenerations + nUrls

----------------------------------------------------------------------------
(* Values *)

\* null of a string | null field, and '' of a string: strings are sequences
Null == <<>>

\* the File objects the upload boundary can deliver
Files == {"A", "B"}
NoFile == "null"

\* the strings a user can type into the credential field, as character sequences
Keys == {<<>>, <<" ">>, <<"k", "1">>, <<" ", "k", "2">>}

IsSpace(c) == c = " "

\* String.prototype.trim
RECURSIVE trim(_)
trim(s) ==
    IF s = <<>> THEN <<>>
    ELSE IF IsSpace(Head(s)) THEN trim(Tail(s))
    ELSE IF IsSpace(s[Len(s)]) THEN trim(SubSeq(s, 1, Len(s) - 1))
    ELSE s

\* String.prototype.includes, on messages held as sequences of fragments
includes(message, fragment) == \E i \in DOMAIN message : message[i] = fragment

\* String.prototype.startsWith, likewise
startsWith(s, prefix) == Len(s) > 0 /\ s[1] = prefix

\* URL.createObjectURL: the n-th blob URL of the document
createObjectURL(n) == <<"blob:", n>>


----------------------------------------------------------------------------
(* Messages and thrown values *)

\* App.tsx:32
EmptyKeyMessage == <<"API Key cannot be empty.">>

\* App.tsx:72
UploadFirstMessage == <<"Please upload an image first.">>

\* App.tsx:45
UnknownMessage == <<"An unknown error occurred.">>

\* App.tsx:87
UnknownGenerationMessage == <<"An unknown error occurred during image generation.">>

\* App.tsx:46
InvalidKeyMessage(errorMessage) ==
    <<"Invalid API Key or setup failed: ">> \o errorMessage
        \o <<". Please check your key and try again.">>

\* App.tsx:89
KeyIssueMessage(errorMessage) ==
    <<"Generation Failed: ", "API Key", " issue. ">> \o errorMessage
        \o <<". Please try setting your API key again.">>

\* App.tsx:92
GenerationFailedMessage(errorMessage) ==
    <<"Generation Failed: ">> \o errorMessage \o <<".">>

Error(message) == [isError |-> TRUE, message |-> message]
NotAnError == [isError |-> FALSE, message |-> <<>>]

\* what initializeUserProvidedClient can reject with
InvalidCredential == Error(<<"API key not valid. Please pass a valid API key.">>)
SetupFailure == Error(<<"Failed to construct the client">>)
InitializeFailures == {InvalidCredential, SetupFailure}

\* what fileToBase64 can reject with
EncodingError == Error(<<"Failed to read file">>)

\* what generateImageWithPromptFromImage can reject with
NotInitialized == Error(<<"Gemini ", "client is not initialized", ".">>)
CredentialRejected == Error(<<"API Key", " not valid or expired">>)
GenerationFailed == Error(<<"The model returned no image">>)
GenerateFailures == {CredentialRejected, GenerationFailed, NotAnError}

\* result.imageUrl and result.finalPrompt of the id-th generation call
ResultUrl(id) == <<"data:image", id>>
ResultPrompt(id) == <<"prompt", id>>

----------------------------------------------------------------------------
(* Credentialed Client Holder (services/GeminiService) *)

isClientInitialized == boundClient # Null

\* initializeUserProvidedClient resolved: the slot holds a client for the key
InitializeResolved(key) == boundClient' = <<key>>

\* initializeUserProvidedClient rejected: the slot keeps what it held
InitializeRejected == UNCHANGED boundClient

----------------------------------------------------------------------------
(* Preview URLs *)

revokeObjectURL(url) == revoked' = [revoked EXCEPT ![url[2]] = @ + 1]

\* the cleanup of the effect on uploadedImagePreview, run with the value it
\* closed over
PreviewCleanup(preview) ==
    IF preview # Null /\ startsWith(preview, "blob:")
    THEN revokeObjectURL(preview)
    ELSE UNCHANGED revoked

\* the effect releasing the value it was set up for, not the one it replaces
PreviewEffectReleasesNew ==
    IF uploadedImagePreview' # uploadedImagePreview
    THEN PreviewCleanup(uploadedImagePreview')
    ELSE UNCHANGED revoked

\* the effect re-runs, after its cleanup, when its dependency changed
PreviewEffect ==
    IF uploadedImagePreview' # uploadedImagePreview
    THEN PreviewCleanup(uploadedImagePreview)
    ELSE UNCHANGED revoked

----------------------------------------------------------------------------
(* Init *)

\* the effect run once on mount
MountEffect == isClientInitialized

Init ==
    /\ apiKey = <<>>
    /\ boundClient = Null
    /\ isKeySet = MountEffect
    /\ apiKeyError = Null
    /\ isKeyValidating = FALSE
    /\ uploadedImageFile = NoFile
    /\ uploadedImagePreview = Null
    /\ generatedImageUrl = Null
    /\ generatedPrompt = Null
    /\ isLoading = FALSE
    /\ error = Null
    /\ mounted = TRUE
    /\ validations = {}
    /\ generations = {}
    /\ nValidations = 0
    /\ nGenerations = 0
    /\ nUrls = 0
    /\ revoked = [n \in 1..MaxCalls |-> 0]


----------------------------------------------------------------------------
(* What the render offers (App.tsx:124-228, ApiKeyInput.tsx:52-54) *)

\* the credential screen is rendered instead of the main screen
CredentialScreen == ~isKeySet

\* the submit button of ApiKeyInput is enabled
SubmitOffered(localApiKey) ==
    CredentialScreen /\ ~isKeyValidating /\ trim(localApiKey) # <<>>

\* the Change API Key button
ChangeApiKeyOffered == ~CredentialScreen

\* ImageUpload is rendered
UploadOffered == ~CredentialScreen /\ uploadedImagePreview = Null

\* a Generate button without disabled={isLoading}
GenerateOfferedWhileLoading ==
    ~CredentialScreen /\ uploadedImagePreview # Null

\* the Generate button is rendered and enabled
GenerateOffered ==
    ~CredentialScreen /\ uploadedImagePreview # Null /\ ~isLoading

\* the Reselect button is rendered and enabled
ReselectOffered ==
    ~CredentialScreen /\ uploadedImagePreview # Null /\ ~isLoading

----------------------------------------------------------------------------
(* handleApiKeySubmit, App.tsx:30-51 *)

\* line 31 without the trim: only the empty string is rejected locally
handleApiKeySubmitNoTrim(submittedKey) ==
    IF submittedKey = <<>>
    THEN /\ apiKeyError' = EmptyKeyMessage
         /\ isKeySet' = FALSE
         /\ UNCHANGED <<isKeyValidating, validations, nValidations>>
    ELSE /\ Calls < MaxCalls
         /\ isKeyValidating' = TRUE
         /\ apiKeyError' = Null
         /\ nValidations' = nValidations + 1
         /\ validations' =
                validations \cup {[id |-> nValidations + 1, key |-> submittedKey]}
         /\ UNCHANGED isKeySet

\* lines 30-39: up to the await
handleApiKeySubmit(submittedKey) ==
    IF trim(submittedKey) = <<>>
    THEN /\ apiKeyError' = EmptyKeyMessage
         /\ isKeySet' = FALSE
         /\ UNCHANGED <<isKeyValidating, validations, nValidations>>
    ELSE /\ Calls < MaxCalls
         /\ isKeyValidating' = TRUE
         /\ apiKeyError' = Null
         /\ nValidations' = nValidations + 1
         /\ validations' =
                validations \cup {[id |-> nValidations + 1, key |-> submittedKey]}
         /\ UNCHANGED isKeySet

\* lines 40-42 and 49: initializeUserProvidedClient resolved
ApiKeySubmitResolved(v) ==
    /\ InitializeResolved(v.key)
    /\ apiKey' = v.key
    /\ isKeySet' = TRUE
    /\ error' = Null
    /\ isKeyValidating' = FALSE
    /\ UNCHANGED apiKeyError

\* lines 43-49: initializeUserProvidedClient rejected
ApiKeySubmitRejected(v, err) ==
    /\ InitializeRejected
    /\ LET errorMessage == IF err.isError THEN err.message ELSE UnknownMessage
       IN  /\ apiKeyError' = InvalidKeyMessage(errorMessage)
           /\ isKeySet' = FALSE
           /\ isKeyValidating' = FALSE
           /\ UNCHANGED <<apiKey, error>>

\* handleSubmit without the test of line 16
handleSubmitUnguarded(localApiKey) == handleApiKeySubmit(localApiKey)

\* ApiKeyInput.tsx:14-19
handleSubmit(localApiKey) ==
    IF ~isKeyValidating
    THEN handleApiKeySubmit(localApiKey)
    ELSE UNCHANGED <<apiKeyError, isKeySet, isKeyValidating, validations,
                     nValidations>>

----------------------------------------------------------------------------
(* handleImageUpload, App.tsx:53-60, and the effect of lines 62-68 *)

handleImageUpload(file) ==
    /\ Calls < MaxCalls
    /\ uploadedImageFile' = file
    /\ error' = Null
    /\ generatedImageUrl' = Null
    /\ generatedPrompt' = Null
    /\ nUrls' = nUrls + 1
    /\ uploadedImagePreview' = createObjectURL(nUrls + 1)
    /\ PreviewEffect

\* ImageUpload, part_000:8-12 and 27-33
handleFileChange(files) ==
    IF Len(files) > 0
    THEN handleImageUpload(files[1])
    ELSE UNCHANGED <<uploadedImageFile, error, generatedImageUrl, generatedPrompt,
                     nUrls, uploadedImagePreview, revoked>>

----------------------------------------------------------------------------
(* handleGenerate, App.tsx:70-97 *)

\* handleGenerate without the test of lines 71-74
handleGenerateUnchecked ==
    /\ Calls < MaxCalls
    /\ isLoading' = TRUE
    /\ error' = Null
    /\ generatedImageUrl' = Null
    /\ generatedPrompt' = Null
    /\ nGenerations' = nGenerations + 1
    /\ generations' = generations \cup
           {[id |-> nGenerations + 1, file |-> uploadedImageFile,
             stage |-> "fileToBase64",
             imageChanged |-> FALSE, credentialChanged |-> FALSE]}

\* lines 71-81: up to the first await
handleGenerate ==
    IF uploadedImageFile = NoFile
    THEN /\ error' = UploadFirstMessage
         /\ UNCHANGED <<isLoading, generatedImageUrl, generatedPrompt,
                        generations, nGenerations>>
    ELSE /\ Calls < MaxCalls
         /\ isLoading' = TRUE
         /\ error' = Null
         /\ generatedImageUrl' = Null
         /\ generatedPrompt' = Null
         /\ nGenerations' = nGenerations + 1
         /\ generations' = generations \cup
                {[id |-> nGenerations + 1, file |-> uploadedImageFile,
                  stage |-> "fileToBase64",
                  imageChanged |-> FALSE, credentialChanged |-> FALSE]}

\* line 87
GenerationErrorMessage(err) ==
    IF err.isError THEN err.message ELSE UnknownGenerationMessage

\* line 88
IsApiKeyIssue(errorMessage) ==
    \/ includes(errorMessage, "API Key")
    \/ includes(errorMessage, "client is not initialized")

\* the catch without line 90
GenerateCatchKeepsKeySet(err) ==
    LET errorMessage == GenerationErrorMessage(err)
    IN  /\ IF IsApiKeyIssue(errorMessage)
           THEN error' = KeyIssueMessage(errorMessage)
           ELSE error' = GenerationFailedMessage(errorMessage)
        /\ isLoading' = FALSE
        /\ UNCHANGED <<isKeySet, generatedImageUrl, generatedPrompt>>

\* the catch with line 90 moved out of the if: every failure unbinds
GenerateCatchAlwaysUnbinds(err) ==
    LET errorMessage == GenerationErrorMessage(err)
    IN  /\ IF IsApiKeyIssue(errorMessage)
           THEN error' = KeyIssueMessage(errorMessage)
           ELSE error' = GenerationFailedMessage(errorMessage)
        /\ isKeySet' = FALSE
        /\ isLoading' = FALSE
        /\ UNCHANGED <<generatedImageUrl, generatedPrompt>>

\* the catch of a handler that lowers isLoading at the end of the try block
\* instead of in a finally
GenerateCatchKeepsLoading(err) ==
    LET errorMessage == GenerationErrorMessage(err)
    IN  /\ IF IsApiKeyIssue(errorMessage)
           THEN /\ error' = KeyIssueMessage(errorMessage)
                /\ isKeySet' = FALSE
           ELSE /\ error' = GenerationFailedMessage(errorMessage)
                /\ UNCHANGED isKeySet
        /\ UNCHANGED <<isLoading, generatedImageUrl, generatedPrompt>>

\* lines 85-96: catch and finally
GenerateCatch(err) ==
    LET errorMessage == GenerationErrorMessage(err)
    IN  /\ IF IsApiKeyIssue(errorMessage)
           THEN /\ error' = KeyIssueMessage(errorMessage)
                /\ isKeySet' = FALSE
           ELSE /\ error' = GenerationFailedMessage(errorMessage)
                /\ UNCHANGED isKeySet
        /\ isLoading' = FALSE
        /\ UNCHANGED <<generatedImageUrl, generatedPrompt>>

\* lines 83-84 and 95: generateImageWithPromptFromImage resolved
GenerateApply(g) ==
    /\ generatedImageUrl' = ResultUrl(g.id)
    /\ generatedPrompt' = ResultPrompt(g.id)
    /\ isLoading' = FALSE
    /\ UNCHANGED <<error, isKeySet>>

----------------------------------------------------------------------------
(* handleReselectImage, App.tsx:99-110, and handleChangeApiKey, 112-122 *)

\* a handler that, like handleGenerate, complains when no image is selected
handleReselectImageRequiresImage ==
    IF uploadedImageFile = NoFile
    THEN /\ error' = UploadFirstMessage
         /\ UNCHANGED <<uploadedImageFile, uploadedImagePreview,
                        generatedImageUrl, generatedPrompt, isLoading, revoked>>
    ELSE /\ uploadedImageFile' = NoFile
         /\ uploadedImagePreview' = Null
         /\ generatedImageUrl' = Null
         /\ generatedPrompt' = Null
         /\ error' = Null
         /\ isLoading' = FALSE
         /\ PreviewEffect

handleReselectImage ==
    /\ uploadedImageFile' = NoFile
    /\ uploadedImagePreview' = Null
    /\ generatedImageUrl' = Null
    /\ generatedPrompt' = Null
    /\ error' = Null
    /\ isLoading' = FALSE
    /\ PreviewEffect

handleChangeApiKey ==
    /\ isKeySet' = FALSE
    /\ apiKey' = <<>>
    /\ apiKeyError' = Null
    /\ uploadedImageFile' = NoFile
    /\ uploadedImagePreview' = Null
    /\ generatedImageUrl' = Null
    /\ generatedPrompt' = Null
    /\ error' = Null
    /\ PreviewEffect


----------------------------------------------------------------------------
(* Steps of a session *)

\* the generations in flight, each noting an event that happened since it began
Noting(event) ==
    IF event = "imageChanged"
    THEN {[g EXCEPT !.imageChanged = TRUE] : g \in generations}
    ELSE {[g EXCEPT !.credentialChanged = TRUE] : g \in generations}

\* handleApiKeySubmit is invoked
ApiKeySubmit(submittedKey) ==
    /\ mounted
    /\ handleApiKeySubmit(submittedKey)
    /\ UNCHANGED <<apiKey, uploadedImageFile, uploadedImagePreview,
                   generatedImageUrl, generatedPrompt, isLoading, error, mounted,
                   boundClient, generations, nGenerations, nUrls, revoked>>

\* the form of ApiKeyInput is submitted
FormSubmit(localApiKey) ==
    /\ mounted
    /\ SubmitOffered(localApiKey)
    /\ handleSubmit(localApiKey)
    /\ UNCHANGED <<apiKey, uploadedImageFile, uploadedImagePreview,
                   generatedImageUrl, generatedPrompt, isLoading, error, mounted,
                   boundClient, generations, nGenerations, nUrls, revoked>>

\* a submit event reaches the form of ApiKeyInput (ApiKeyInput.tsx:23),
\* whatever the state of its button: handleSubmit decides
SubmitEvent(localApiKey) ==
    /\ mounted
    /\ CredentialScreen
    /\ handleSubmit(localApiKey)
    /\ UNCHANGED <<apiKey, uploadedImageFile, uploadedImagePreview,
                   generatedImageUrl, generatedPrompt, isLoading, error, mounted,
                   boundClient, generations, nGenerations, nUrls, revoked>>

ValidationResolved(v) ==
    /\ mounted
    /\ v \in validations
    /\ ApiKeySubmitResolved(v)
    /\ validations' = validations \ {v}
    /\ UNCHANGED <<uploadedImageFile, uploadedImagePreview, generatedImageUrl,
                   generatedPrompt, isLoading, mounted, generations, nValidations,
                   nGenerations, nUrls, revoked>>

ValidationRejected(v, err) ==
    /\ mounted
    /\ v \in validations
    /\ ApiKeySubmitRejected(v, err)
    /\ validations' = validations \ {v}
    /\ UNCHANGED <<uploadedImageFile, uploadedImagePreview, generatedImageUrl,
                   generatedPrompt, isLoading, mounted, generations, nValidations,
                   nGenerations, nUrls, revoked>>

\* handleImageUpload is invoked
ImageUpload(file) ==
    /\ mounted
    /\ handleImageUpload(file)
    /\ generations' = Noting("imageChanged")
    /\ UNCHANGED <<apiKey, isKeySet, apiKeyError, isKeyValidating, isLoading,
                   mounted, boundClient, validations, nValidations, nGenerations>>

\* a file list arrives from the picker or a drop on ImageUpload
FileChange(files) ==
    /\ mounted
    /\ UploadOffered
    /\ handleFileChange(files)
    /\ generations' = IF Len(files) > 0 THEN Noting("imageChanged") ELSE generations
    /\ UNCHANGED <<apiKey, isKeySet, apiKeyError, isKeyValidating, isLoading,
                   mounted, boundClient, validations, nValidations, nGenerations>>

\* handleGenerate is invoked
Generate ==
    /\ mounted
    /\ handleGenerate
    /\ UNCHANGED <<apiKey, isKeySet, apiKeyError, isKeyValidating,
                   uploadedImageFile, uploadedImagePreview, mounted, boundClient,
                   validations, nValidations, nUrls, revoked>>

\* the Generate button is clicked
ClickGenerate == GenerateOffered /\ Generate

\* fileToBase64 resolved (line 81); line 82 calls the Gateway, which rejects
\* at once when no client is bound
GenerateEncoded(g) ==
    /\ mounted
    /\ g \in generations
    /\ g.stage = "fileToBase64"
    /\ IF isClientInitialized
       THEN /\ generations' =
                (generations \ {g}) \cup {[g EXCEPT !.stage = "generate"]}
            /\ UNCHANGED <<error, isKeySet, isLoading, generatedImageUrl,
                           generatedPrompt>>
       ELSE /\ GenerateCatch(NotInitialized)
            /\ generations' = generations \ {g}
    /\ UNCHANGED <<apiKey, apiKeyError, isKeyValidating, uploadedImageFile,
                   uploadedImagePreview, mounted, boundClient, validations,
                   nValidations, nGenerations, nUrls, revoked>>

\* fileToBase64 rejected
GenerateEncodeRejected(g) ==
    /\ mounted
    /\ g \in generations
    /\ g.stage = "fileToBase64"
    /\ GenerateCatch(EncodingError)
    /\ generations' = generations \ {g}
    /\ UNCHANGED <<apiKey, apiKeyError, isKeyValidating, uploadedImageFile,
                   uploadedImagePreview, mounted, boundClient, validations,
                   nValidations, nGenerations, nUrls, revoked>>

\* generateImageWithPromptFromImage resolved
GenerateResolved(g) ==
    /\ mounted
    /\ g \in generations
    /\ g.stage = "generate"
    /\ GenerateApply(g)
    /\ generations' = generations \ {g}
    /\ UNCHANGED <<apiKey, apiKeyError, isKeyValidating, uploadedImageFile,
                   uploadedImagePreview, mounted, boundClient, validations,
                   nValidations, nGenerations, nUrls, revoked>>

\* generateImageWithPromptFromImage rejected
GenerateRejected(g, err) ==
    /\ mounted
    /\ g \in generations
    /\ g.stage = "generate"
    /\ GenerateCatch(err)
    /\ generations' = generations \ {g}
    /\ UNCHANGED <<apiKey, apiKeyError, isKeyValidating, uploadedImageFile,
                   uploadedImagePreview, mounted, boundClient, validations,
                   nValidations, nGenerations, nUrls, revoked>>

\* handleReselectImage is invoked
ReselectImage ==
    /\ mounted
    /\ handleReselectImage
    /\ generations' = Noting("imageChanged")
    /\ UNCHANGED <<apiKey, isKeySet, apiKeyError, isKeyValidating, mounted,
                   boundClient, validations, nValidations, nGenerations, nUrls>>

\* the Reselect button is clicked
ClickReselect == ReselectOffered /\ ReselectImage

\* handleChangeApiKey is invoked
ChangeApiKey ==
    /\ mounted
    /\ handleChangeApiKey
    /\ generations' = Noting("credentialChanged")
    /\ UNCHANGED <<isKeyValidating, isLoading, mounted, boundClient, validations,
                   nValidations, nGenerations, nUrls>>

\* the Change API Key button is clicked
ClickChangeApiKey == ChangeApiKeyOffered /\ ChangeApiKey

\* the component is torn down: the cleanup of every effect runs and the state
\* of the component is discarded. React drops the state updates of a promise
\* that settles later, so the session ends here
Unmount ==
    /\ mounted
    /\ mounted' = FALSE
    /\ PreviewCleanup(uploadedImagePreview)
    /\ apiKey' = <<>>
    /\ isKeySet' = FALSE
    /\ apiKeyError' = Null
    /\ isKeyValidating' = FALSE
    /\ uploadedImageFile' = NoFile
    /\ uploadedImagePreview' = Null
    /\ generatedImageUrl' = Null
    /\ generatedPrompt' = Null
    /\ isLoading' = FALSE
    /\ error' = Null
    /\ validations' = {}
    /\ generations' = {}
    /\ UNCHANGED <<boundClient, nValidations, nGenerations, nUrls>>

FileLists == {<<>>} \cup {<<f>> : f \in Files}

\* the generation g leaves the set in flight: line 85 or line 95 was reached
Settles(g) == mounted' /\ \A h \in generations' : h.id # g.id

\* the generation g settles by throwing err into the catch of line 85
Fails(g, err) ==
    \/ GenerateRejected(g, err)
    \/ err = EncodingError /\ GenerateEncodeRejected(g)
    \/ err = NotInitialized /\ ~isClientInitialized /\ GenerateEncoded(g)

\* the failures the catch treats as credential-related
IsCredentialRelated(err) == IsApiKeyIssue(GenerationErrorMessage(err))

Thrown == GenerateFailures \cup {EncodingError, NotInitialized}

\* the Session Phase, as the render derives it (App.tsx:124, 166-168, 207, 223)
Phase ==
    IF ~isKeySet THEN "NeedsCredential"
    ELSE IF isLoading THEN "Generating"
    ELSE IF generatedImageUrl # Null /\ generatedPrompt # Null THEN "Generated"
    ELSE IF uploadedImagePreview # Null THEN "ImageSelected"
    ELSE "Ready"

\* the one error message the render shows: apiKeyError on the credential
\* screen (App.tsx:124-143), error on the main screen (App.tsx:216-221)
VisibleError == IF ~isKeySet THEN apiKeyError ELSE error

\* a promise in flight settles
Settle ==
    \/ \E v \in validations : ValidationResolved(v)
    \/ \E v \in validations, err \in InitializeFailures : ValidationRejected(v, err)
    \/ \E g \in generations : GenerateEncoded(g)
    \/ \E g \in generations : GenerateEncodeRejected(g)
    \/ \E g \in generations : GenerateResolved(g)
    \/ \E g \in generations, err \in GenerateFailures : GenerateRejected(g, err)

\* the rendered application
Next ==
    \/ \E k \in Keys : FormSubmit(k)
    \/ \E files \in FileLists : FileChange(files)
    \/ ClickGenerate
    \/ ClickReselect
    \/ ClickChangeApiKey
    \/ Settle
    \/ Unmount

Spec == Init /\ [][Next]_vars

\* the rendered application, where every pending call returns or fails: a
\* promise in flight is settled by the event loop once the remote call ends
SpecLive == Init /\ [][Next]_vars /\ WF_vars(Settle)

\* the rendered application with submit events reaching the form at any time
NextForm ==
    \/ \E k \in Keys : SubmitEvent(k)
    \/ \E files \in FileLists : FileChange(files)
    \/ ClickGenerate
    \/ ClickReselect
    \/ ClickChangeApiKey
    \/ Settle
    \/ Unmount

SpecForm == Init /\ [][NextForm]_vars

\* the handlers of App invoked in any order
NextHandlers ==
    \/ \E k \in Keys : ApiKeySubmit(k)
    \/ \E f \in Files : ImageUpload(f)
    \/ Generate
    \/ ReselectImage
    \/ ChangeApiKey
    \/ Settle
    \/ Unmount

SpecHandlers == Init /\ [][NextHandlers]_vars


----------------------------------------------------------------------------
(* Claims *)

\* a generation started after g has already settled
NewerSettled(g) ==
    \E id \in (g.id + 1)..nGenerations : \A h \in generations : h.id # id

\* C1: when a generation resolves after another image was selected and a
\* generation started later (for that image) has already settled, it leaves
\* the result, the error and the loading flag as the later one left them.
C1_StaleResponseRejected ==
    [][\A g \in generations :
          (/\ g.imageChanged
           /\ g.file # uploadedImageFile
           /\ NewerSettled(g)
           /\ GenerateResolved(g)) =>
              UNCHANGED <<generatedImageUrl, generatedPrompt, error, isLoading>>]_vars

\* C2: a generation that was in flight when the credential was changed or the
\* image reselected resolves without storing its result: generatedImageUrl
\* and generatedPrompt stay null.
C2_ChangedSessionDiscardsResult ==
    [][\A g \in generations :
          ((g.credentialChanged \/ g.imageChanged) /\ GenerateResolved(g)) =>
              (generatedImageUrl' = Null /\ generatedPrompt' = Null)]_vars

\* C3: at most one generation call is outstanding at any time, after any
\* sequence of handler invocations.
C3_AtMostOneOutstanding == Cardinality(generations) <= 1

\* C4: a stored result implies the session is bound and an image is selected,
\* and a raised loading flag implies the same.
C4_PhaseConsistent ==
    mounted =>
        /\ generatedImageUrl # Null => (isKeySet /\ uploadedImageFile # NoFile)
        /\ isLoading => (isKeySet /\ uploadedImageFile # NoFile)

\* C5: every blob URL created so far was revoked exactly once, except the
\* current preview, which was never revoked; after teardown none is current.
C5_PreviewReleasedExactlyOnce ==
    \A n \in 1..MaxCalls :
        revoked[n] =
            IF n <= nUrls /\ createObjectURL(n) # uploadedImagePreview THEN 1 ELSE 0

\* a second image was selected over the first, whose URL was revoked
C5_Witness ==
    /\ nUrls >= 2
    /\ revoked[1] = 1
    /\ uploadedImagePreview = createObjectURL(2)


\* C6: handleChangeApiKey leaves the session in NeedsCredential with the
\* credential, the image, the preview, the result and the error cleared, and
\* the Holder unbound.
C6_ChangeCredentialResetsAll ==
    [][ChangeApiKey =>
          /\ Phase' = "NeedsCredential"
          /\ apiKey' = <<>>
          /\ uploadedImageFile' = NoFile
          /\ uploadedImagePreview' = Null
          /\ generatedImageUrl' = Null
          /\ generatedPrompt' = Null
          /\ error' = Null
          /\ ~isClientInitialized']_vars

\* C7: with no validation in flight, isKeySet equals isClientInitialized().
C7_ControllerAgreesWithHolder ==
    (mounted /\ validations = {}) => (isKeySet = isClientInitialized)

\* C8: a generation that was in flight when the credential was changed, and
\* that fails with a credential-related failure after a new credential was
\* accepted, leaves isKeySet true and sets no error.
C8_NewCredentialInvalidatesOld ==
    [][\A g \in generations, err \in Thrown :
          (/\ g.credentialChanged
           /\ isKeySet
           /\ IsCredentialRelated(err)
           /\ Fails(g, err)) =>
              (isKeySet' /\ error' = error)]_vars

\* an error stored by line 89
IsKeyIssueError(e) == \E err \in Thrown : e = KeyIssueMessage(GenerationErrorMessage(err))

\* C9: a credential-related failure of a generation leaves the session in
\* NeedsCredential with the image and the preview as they were; and from
\* there, with an image selected, an accepted credential leaves the session
\* in ImageSelected with no error.
C9_CredentialFailureKeepsImage ==
    [][/\ \A g \in generations, err \in Thrown :
             (IsCredentialRelated(err) /\ Fails(g, err)) =>
                 /\ Phase' = "NeedsCredential"
                 /\ uploadedImageFile' = uploadedImageFile
                 /\ uploadedImagePreview' = uploadedImagePreview
       /\ \A v \in validations :
             (/\ IsKeyIssueError(error)
              /\ uploadedImageFile # NoFile
              /\ ValidationResolved(v)) =>
                 /\ Phase' = "ImageSelected"
                 /\ error' = Null
                 /\ uploadedImageFile' = uploadedImageFile
                 /\ uploadedImagePreview' = uploadedImagePreview]_vars

\* the first credential was accepted, an image selected, its generation
\* failed on the credential and the second credential was accepted
C9_Witness ==
    /\ Phase = "ImageSelected"
    /\ error = Null
    /\ nValidations = 2
    /\ nUrls = 1
    /\ nGenerations = 1
    /\ generations = {}
    /\ validations = {}

\* C10: a failure of a generation that is not credential-related stores an
\* error, lowers the loading flag, stores no result and leaves the bound flag,
\* the credential, the image and the preview as they were; a session that was
\* Generating with an image selected is in ImageSelected afterwards.
C10_OtherFailureReturnsToImageSelected ==
    [][\A g \in generations, err \in Thrown :
          (~IsCredentialRelated(err) /\ Fails(g, err)) =>
              /\ error' = GenerationFailedMessage(GenerationErrorMessage(err))
              /\ error' # Null
              /\ ~isLoading'
              /\ generatedImageUrl' = Null
              /\ generatedPrompt' = Null
              /\ isKeySet' = isKeySet
              /\ apiKey' = apiKey
              /\ uploadedImageFile' = uploadedImageFile
              /\ uploadedImagePreview' = uploadedImagePreview
              /\ (Phase = "Generating" /\ uploadedImageFile # NoFile) =>
                     Phase' = "ImageSelected"]_vars

\* a generation failed otherwise and the session is back in ImageSelected
C10_Witness ==
    /\ Phase = "ImageSelected"
    /\ \E err \in Thrown :
          /\ ~IsCredentialRelated(err)
          /\ error = GenerationFailedMessage(GenerationErrorMessage(err))
    /\ nGenerations = 1
    /\ generations = {}

\* C11: handleApiKeySubmit with an empty or whitespace-only credential starts
\* no validation and leaves the Holder alone, leaves the session in
\* NeedsCredential with apiKeyError "API Key cannot be empty.", and does not
\* raise isKeyValidating.
C11_EmptyCredentialRejectedLocally ==
    [][\A k \in Keys :
          (trim(k) = <<>> /\ ApiKeySubmit(k)) =>
              /\ nValidations' = nValidations
              /\ validations' = validations
              /\ boundClient' = boundClient
              /\ Phase' = "NeedsCredential"
              /\ apiKeyError' = EmptyKeyMessage
              /\ isKeyValidating' = isKeyValidating
              /\ (validations = {} => ~isKeyValidating')]_vars

\* a blank credential was submitted first: nothing was validated
C11_Witness ==
    /\ apiKeyError = EmptyKeyMessage
    /\ Phase = "NeedsCredential"
    /\ nValidations = 0
    /\ ~isKeyValidating
    /\ ~isClientInitialized

\* C12: submitting a non-empty credential starts exactly one validation; when
\* it is accepted the session is bound with apiKeyError and error null, and in
\* Ready when no image is selected; when it is rejected the session is in
\* NeedsCredential with apiKeyError set; isKeyValidating is false afterwards.
C12_SubmitCredentialOutcome ==
    [][/\ \A k \in Keys :
             (trim(k) # <<>> /\ FormSubmit(k)) =>
                 /\ nValidations' = nValidations + 1
                 /\ validations' =
                        validations \cup {[id |-> nValidations + 1, key |-> k]}
       /\ \A v \in validations :
             ValidationResolved(v) =>
                 /\ isKeySet'
                 /\ isClientInitialized'
                 /\ apiKeyError' = Null
                 /\ error' = Null
                 /\ ~isKeyValidating'
                 /\ uploadedImageFile' = NoFile => Phase' = "Ready"
       /\ \A v \in validations, err \in InitializeFailures :
             ValidationRejected(v, err) =>
                 /\ Phase' = "NeedsCredential"
                 /\ apiKeyError' # Null
                 /\ ~isKeyValidating']_vars

\* the session state C13 compares
session == <<uploadedImageFile, uploadedImagePreview, generatedImageUrl,
             generatedPrompt, error, isLoading, isKeySet, apiKey>>

\* handleReselectImage invoked now would leave the session state as it is
ReselectChangesNothing == ~ENABLED (ReselectImage /\ session' # session)

\* C13 as stated: the state handleReselectImage leaves is one a second
\* invocation does not change, and invoked in Ready it changes nothing.
C13_ReselectIdempotent ==
    [][ReselectImage =>
          /\ ReselectChangesNothing'
          /\ Phase = "Ready" => session' = session]_vars

\* C13, amended: the state handleReselectImage leaves is one a second
\* invocation does not change, and invoked in Ready it changes nothing but
\* the error, which it clears.
C13_ReselectIdempotentClearsError ==
    [][ReselectImage =>
          /\ ReselectChangesNothing'
          /\ Phase = "Ready" =>
                /\ error' = Null
                /\ UNCHANGED <<uploadedImageFile, uploadedImagePreview,
                               generatedImageUrl, generatedPrompt, isLoading,
                               isKeySet, apiKey>>]_vars

\* the one credential is still bound, so it was handleReselectImage that
\* released the one preview made; invoked again it changes nothing
C13_Witness ==
    /\ mounted
    /\ Phase = "Ready"
    /\ nValidations = 1
    /\ nUrls = 1
    /\ revoked[1] = 1
    /\ uploadedImagePreview = Null
    /\ ReselectChangesNothing

\* C14: a result is stored only by the generation started last, for the image
\* still selected, with no image selected and no credential changed since it
\* started; and a stored result is the one that generation returned, with an
\* image selected.
C14_ResultFromLatestGeneration ==
    [][/\ \A g \in generations :
             GenerateResolved(g) =>
                 /\ g.id = nGenerations
                 /\ g.file = uploadedImageFile
                 /\ ~g.imageChanged
                 /\ ~g.credentialChanged
       /\ generatedImageUrl' # Null =>
             /\ generatedImageUrl' = ResultUrl(nGenerations')
             /\ generatedPrompt' = ResultPrompt(nGenerations')
             /\ uploadedImageFile' # NoFile]_vars

\* C15: every generation in flight leads to a state where it has settled and
\* isLoading is false, every validation in flight to one where it has settled
\* and isKeyValidating is false; and no failure of either leaves its flag
\* raised.
C15_EveryCallSettles ==
    /\ \A id \in 1..MaxCalls :
          (\E g \in generations : g.id = id) ~>
              (~isLoading /\ \A g \in generations : g.id # id)
    /\ \A id \in 1..MaxCalls :
          (\E v \in validations : v.id = id) ~>
              (~isKeyValidating /\ \A v \in validations : v.id # id)
    /\ [][/\ \A g \in generations, err \in Thrown : Fails(g, err) => ~isLoading'
          /\ \A v \in validations, err \in InitializeFailures :
                ValidationRejected(v, err) => ~isKeyValidating']_vars

\* a validation was rejected and a later one accepted, then a generation
\* failed: all three have settled and both flags are down
C15_Witness ==
    /\ mounted
    /\ nValidations = 2
    /\ nGenerations = 1
    /\ validations = {}
    /\ generations = {}
    /\ error # Null
    /\ ~isLoading
    /\ ~isKeyValidating

\* C16: the render shows one message, apiKeyError while unbound and error
\* while bound; every submit, upload, Generate, Reselect and Change API Key
\* and every successful validation or generation leaves no earlier message
\* visible; a failing call shows its own message; and a generation settling
\* after an image was selected or the credential changed since it started
\* leaves the visible message as it is.
C16_OneErrorSuperseded ==
    [][/\ (\/ \E k \in Keys : FormSubmit(k)
           \/ \E files \in FileLists : Len(files) > 0 /\ FileChange(files)
           \/ ClickGenerate
           \/ ClickReselect
           \/ ClickChangeApiKey) => VisibleError' = Null
       /\ \A v \in validations : ValidationResolved(v) => VisibleError' = Null
       /\ \A v \in validations, err \in InitializeFailures :
             ValidationRejected(v, err) =>
                 VisibleError' = InvalidKeyMessage(err.message)
       /\ \A g \in generations :
             GenerateResolved(g) =>
                 IF g.imageChanged \/ g.credentialChanged
                 THEN VisibleError' = VisibleError
                 ELSE VisibleError' = Null
       /\ \A g \in generations, err \in Thrown :
             Fails(g, err) =>
                 IF g.imageChanged \/ g.credentialChanged
                 THEN VisibleError' = VisibleError
                 ELSE VisibleError' \in
                          {Null, GenerationFailedMessage(GenerationErrorMessage(err))}]_vars

\* C17: in the rendered application isLoading is true exactly when one
\* generation is in flight, and never more than one is.
C17_LoadingTracksInFlight ==
    /\ Cardinality(generations) <= 1
    /\ isLoading <=> Cardinality(generations) = 1

\* Change API Key was clicked while a generation was in flight: the flag is
\* still raised on the credential screen and the generation still pending
C17_Witness ==
    /\ mounted
    /\ ~isKeySet
    /\ isLoading
    /\ \E g \in generations : g.credentialChanged

\* C18: at most one validation is in flight; a submit event arriving while
\* one is in flight changes nothing and starts no validation; and while one
\* is in flight the session is on the credential screen with isKeyValidating
\* raised, so that no upload, Generate, Reselect or Change API Key is offered.
C18_AtMostOneValidation ==
    [][/\ Cardinality(validations') <= 1
       /\ validations' # {} =>
             /\ ~isKeySet'
             /\ isKeyValidating'
             /\ ~UploadOffered' /\ ~GenerateOffered'
             /\ ~ReselectOffered' /\ ~ChangeApiKeyOffered'
       /\ \A k \in Keys :
             (validations # {} /\ SubmitEvent(k)) =>
                 /\ validations' = validations
                 /\ nValidations' = nValidations
                 /\ UNCHANGED appState]_vars

\* the second validation of a session is in flight, alone
C18_Witness ==
    /\ mounted
    /\ nValidations = 2
    /\ Cardinality(validations) = 1
    /\ isKeyValidating
    /\ ~isKeySet

\* C19: handleGenerate with no image selected starts no encoding and no
\* generation call, sets error to "Please upload an image first." and leaves
\* isLoading, the result, isKeySet and the credential as they were.
C19_GenerateWithoutImage ==
    [][(uploadedImageFile = NoFile /\ Generate) =>
          /\ generations' = generations
          /\ nGenerations' = nGenerations
          /\ error' = UploadFirstMessage
          /\ UNCHANGED <<isLoading, generatedImageUrl, generatedPrompt,
                         isKeySet, apiKey, boundClient>>]_vars

\* handleGenerate was invoked before any image was selected
C19_Witness ==
    /\ mounted
    /\ error = UploadFirstMessage
    /\ uploadedImageFile = NoFile
    /\ nGenerations = 0
    /\ ~isLoading

====
